---- MODULE Spec2Model ----
(***************************************************************************)
(* Model of the two scripts of the repository:                             *)
(*   benchmark.py   times KeyGen / Signing / Verification of Ed25519 and   *)
(*                  secp256k1 and writes benchmark_results.csv and         *)
(*                  env_info.csv;                                          *)
(*   illustrate.py  reads the two files, validates them, extracts the two *)
(*                  triples of timings and saves the chart.                *)
(*                                                                         *)
(* Text is modelled as a sequence of tokens: a label or a column name is   *)
(* one token, a number is written digit by digit, "," separates the fields *)
(* of a line.  A file is a sequence of lines.  A time is a whole number of *)
(* tenths of a microsecond, so that 12.3 is 123 and is written "12.3".     *)
(***************************************************************************)
EXTENDS Integers, Sequences, FiniteSets, TLC

VARIABLES
    resultsFile,   \* benchmark_results.csv on disk: [exists, readable, lines]
    envFile,       \* env_info.csv on disk: [exists, readable, lines]
    fault,         \* the library failure the chart stage meets: [stage, type]
    pc,            \* position of illustrate.py's main
    df,            \* the table returned by load_and_validate_data
    env_details,   \* the record returned by load_environment_details
    ed_times,      \* first triple returned by extract_benchmark_times
    secp_times,    \* second triple returned by extract_benchmark_times
    raised,        \* the exception main's try block raised
    chart,         \* benchmark_comparison.png: [saved, ed, secp, annotation]
    handler,       \* which except clause of main ran
    ret,           \* what main returned
    exitStatus,    \* the status the process exits with
    trace,         \* the stages of main that ran, in order
    bpc,           \* position of benchmark.py's main
    phase,         \* which of the six measurements is running
    results,       \* the results dict, in insertion order
    clock,         \* time.time(), in ticks
    start,         \* start timestamp of the running measurement
    i,             \* loop counter of the running measurement
    cost,          \* ticks each library call takes
    keys,          \* number of key pairs generated so far
    private,       \* the key pair held by the running measurement
    sig,           \* the key pair that made the signature being verified
    timed,         \* TRUE between the start and end timestamps
    calls,         \* per label: calls of each kind inside the timed interval
    usedKey,       \* per label: the key pair the measured calls used
    console        \* lines printed by benchmark.py

reportVars == <<resultsFile, envFile, fault, pc, df, env_details, ed_times,
                secp_times, raised, chart, handler, ret, exitStatus, trace>>
benchVars == <<bpc, phase, results, clock, start, i, cost, keys, private, sig,
               timed, calls, usedKey, console>>
vars == <<reportVars, benchVars>>

-----------------------------------------------------------------------------
(* Bounds of the model *)

\* at most this many of the six labels are left out of a results file
MaxMissing == 2
\* a library call takes 1..MaxCost ticks
MaxCost == 2
\* a results mapping holds the multiples 0..MaxTime of 48.7 microseconds
MaxTime == 2

-----------------------------------------------------------------------------
(* Text *)

Digit == <<"0", "1", "2", "3", "4", "5", "6", "7", "8", "9">>

DigitValue(c) == CHOOSE d \in 0..9 : Digit[d + 1] = c

IsDigit(c) == \E d \in 0..9 : Digit[d + 1] = c

RECURSIVE StrInt(_)
\* str(n) of a non-negative integer
StrInt(n) == IF n < 10 THEN <<Digit[n + 1]>>
             ELSE StrInt(n \div 10) \o <<Digit[(n % 10) + 1]>>

\* StrFloat with the fraction dropped: 12.3 written "12"
StrFloat_whole(v) == StrInt(v \div 10)

\* str(v) of a float, as csv.writer writes it: "12.3", "0.0"
StrFloat(v) == StrInt(v \div 10) \o <<".">> \o <<Digit[(v % 10) + 1]>>

RECURSIVE IntOf(_)
\* the number a non-empty run of digits denotes
IntOf(ds) == IF Len(ds) = 1 THEN DigitValue(ds[1])
             ELSE IntOf(SubSeq(ds, 1, Len(ds) - 1)) * 10 + DigitValue(ds[Len(ds)])

AllDigits(ds) == Len(ds) > 0 /\ \A k \in 1..Len(ds) : IsDigit(ds[k])

DotAt(s) == {k \in 1..Len(s) : s[k] = "."}

\* can the text be read as a number (digits, or digits "." one digit)
IsNumeric(s) ==
    \/ AllDigits(s)
    \/ /\ Len(s) >= 3
       /\ DotAt(s) = {Len(s) - 1}
       /\ AllDigits(SubSeq(s, 1, Len(s) - 2))
       /\ IsDigit(s[Len(s)])

\* float(s) of a numeric text, in tenths
FloatOf(s) == IF AllDigits(s) THEN IntOf(s) * 10
              ELSE IntOf(SubSeq(s, 1, Len(s) - 2)) * 10 + DigitValue(s[Len(s)])

RECURSIVE JoinFields(_)
\* csv.writer.writerow: the fields separated by ","
JoinFields(fields) ==
    IF Len(fields) = 0 THEN <<>>
    ELSE IF Len(fields) = 1 THEN fields[1]
    ELSE fields[1] \o <<",">> \o JoinFields(Tail(fields))

RECURSIVE SplitFields(_)
\* the fields of one line of a comma-separated file
SplitFields(line) ==
    LET commas == {k \in 1..Len(line) : line[k] = ","}
    IN IF commas = {} THEN <<line>>
       ELSE LET c == CHOOSE k \in commas : \A m \in commas : k <= m
            IN <<SubSeq(line, 1, c - 1)>>
               \o SplitFields(SubSeq(line, c + 1, Len(line)))

\* a Python str that is one token
Str(token) == <<token>>

Range(s) == {s[k] : k \in 1..Len(s)}

RECURSIVE SelectSeq2(_, _)
\* the elements of s that are in the set keep, in the order of s
SelectSeq2(s, keep) ==
    IF Len(s) = 0 THEN <<>>
    ELSE IF s[1] \in keep THEN <<s[1]>> \o SelectSeq2(Tail(s), keep)
    ELSE SelectSeq2(Tail(s), keep)

Reverse(s) == [k \in 1..Len(s) |-> s[Len(s) + 1 - k]]

-----------------------------------------------------------------------------
(* illustrate.py: data *)

\* the two column names; "Time (us/op)" stands for the header "Time (µs/op)"
required_columns == <<"Operation", "Time (us/op)">>

required_operations ==
    <<"Ed25519 KeyGen", "Ed25519 Signing", "Ed25519 Verification",
      "secp256k1 KeyGen", "secp256k1 Signing", "secp256k1 Verification">>

\* extract_benchmark_times.operations
operations ==
    [ed25519 |-> <<"Ed25519 KeyGen", "Ed25519 Signing", "Ed25519 Verification">>,
     secp256k1 |-> <<"secp256k1 KeyGen", "secp256k1 Signing",
                     "secp256k1 Verification">>]

Labels == Range(required_operations)

\* Python's exception classes, each with its base class
BaseOf ==
    [EmptyDataError |-> "ValueError", ValueError |-> "Exception",
     FileNotFoundError |-> "OSError", PermissionError |-> "OSError",
     OSError |-> "Exception", ZeroDivisionError |-> "Exception",
     RuntimeError |-> "Exception", Exception |-> "BaseException",
     BaseException |-> "object"]

RECURSIVE IsInstance(_, _)
\* isinstance(an exception of class type, cls)
IsInstance(type, cls) ==
    IF type = cls THEN TRUE
    ELSE IF type \notin DOMAIN BaseOf THEN FALSE
    ELSE IsInstance(BaseOf[type], cls)

NoException == [type |-> "None", msg |-> "", names |-> <<>>]

Exc(type, msg, names) == [type |-> type, msg |-> msg, names |-> names]

NoDf == [columns |-> <<>>, rows |-> <<>>]

NoChart == [saved |-> FALSE, ed |-> <<>>, secp |-> <<>>, annotation |-> <<>>]

\* pd.read_csv: the header line gives the columns, every other line a row
read_csv(file) ==
    IF ~file.exists THEN [exc |-> Exc("FileNotFoundError", "No such file", <<>>),
                          df |-> NoDf]
    ELSE IF ~file.readable THEN [exc |-> Exc("PermissionError", "Permission denied", <<>>),
                                 df |-> NoDf]
    ELSE IF Len(file.lines) = 0
         THEN [exc |-> Exc("EmptyDataError", "No columns to parse from file", <<>>),
               df |-> NoDf]
    ELSE [exc |-> NoException,
          df |-> [columns |-> SplitFields(file.lines[1]),
                  rows |-> [r \in 1..(Len(file.lines) - 1) |->
                               SplitFields(file.lines[r + 1])]]]

HasColumn(d, col) == \E k \in 1..Len(d.columns) : d.columns[k] = Str(col)

\* df[col]: the cells of the column named col, in row order
Column(d, col) ==
    LET c == CHOOSE k \in 1..Len(d.columns) : d.columns[k] = Str(col)
    IN [r \in 1..Len(d.rows) |-> d.rows[r][c]]

-----------------------------------------------------------------------------
(* illustrate.py: load_and_validate_data *)

\* missing_columns that also rejects a table with any other column
missing_columns_exact(d) ==
    IF Len(d.columns) # Len(required_columns) THEN required_columns
    ELSE SelectSeq2(required_columns,
                    {col \in Range(required_columns) : ~HasColumn(d, col)})

missing_columns(d) ==
    SelectSeq2(required_columns, {col \in Range(required_columns) : ~HasColumn(d, col)})

existing_operations(d) == Range(Column(d, "Operation"))

\* missing_operations that stops at the first missing label
missing_operations_first(d) ==
    LET all == SelectSeq2(required_operations,
                          {op \in Labels : Str(op) \notin existing_operations(d)})
    IN IF all = <<>> THEN <<>> ELSE <<all[1]>>

missing_operations(d) ==
    SelectSeq2(required_operations,
               {op \in Labels : Str(op) \notin existing_operations(d)})

\* validate without the check of the six labels
validate_columns_only(d) ==
    IF missing_columns(d) # <<>>
    THEN [exc |-> Exc("ValueError", "Missing required columns", missing_columns(d)),
          df |-> NoDf]
    ELSE [exc |-> NoException, df |-> d]

\* the body of the try block, after read_csv returned d
validate(d) ==
    IF missing_columns(d) # <<>>
    THEN [exc |-> Exc("ValueError", "Missing required columns", missing_columns(d)),
          df |-> NoDf]
    ELSE IF missing_operations(d) # <<>>
    THEN [exc |-> Exc("ValueError", "Missing required operations",
                      missing_operations(d)),
          df |-> NoDf]
    ELSE [exc |-> NoException, df |-> d]

\* load_and_validate_data reporting a missing file as an empty one
load_and_validate_data_absent_as_empty(file) ==
    LET r == read_csv(file)
        v == IF r.exc = NoException THEN validate(r.df) ELSE r
    IN IF IsInstance(v.exc.type, "FileNotFoundError")
          \/ IsInstance(v.exc.type, "EmptyDataError")
       THEN [exc |-> Exc("ValueError", "CSV file is empty", <<>>), df |-> NoDf]
       ELSE v

\* load_and_validate_data without its except EmptyDataError clause
load_and_validate_data_no_empty_clause(file) ==
    LET r == read_csv(file)
        v == IF r.exc = NoException THEN validate(r.df) ELSE r
    IN IF IsInstance(v.exc.type, "FileNotFoundError")
       THEN [exc |-> Exc("FileNotFoundError", "Benchmark results file not found", <<>>),
             df |-> NoDf]
       ELSE v

\* the function with its two except clauses
load_and_validate_data(file) ==
    LET r == read_csv(file)
        v == IF r.exc = NoException THEN validate(r.df) ELSE r
    IN IF IsInstance(v.exc.type, "FileNotFoundError")
       THEN [exc |-> Exc("FileNotFoundError", "Benchmark results file not found", <<>>),
             df |-> NoDf]
       ELSE IF IsInstance(v.exc.type, "EmptyDataError")
       THEN [exc |-> Exc("ValueError", "CSV file is empty", <<>>), df |-> NoDf]
       ELSE v

-----------------------------------------------------------------------------
(* illustrate.py: load_environment_details *)

RECURSIVE DictOfRows(_, _, _)
\* dict(zip(ks, vs)) as a sequence of <<key, value>>: a later value replaces
\* an earlier one of the same key
DictOfRows(ks, vs, acc) ==
    IF Len(ks) = 0 \/ Len(vs) = 0 THEN acc
    ELSE LET at == {k \in 1..Len(acc) : acc[k][1] = ks[1]}
             nxt == IF at = {} THEN Append(acc, <<ks[1], vs[1]>>)
                    ELSE [k \in 1..Len(acc) |->
                             IF k \in at THEN <<ks[1], vs[1]>> ELSE acc[k]]
         IN DictOfRows(Tail(ks), Tail(vs), nxt)

\* the body of the try block
read_environment(file) ==
    LET r == read_csv(file)
    IN IF r.exc # NoException THEN [exc |-> r.exc, details |-> <<>>]
       ELSE IF ~(HasColumn(r.df, "Property") /\ HasColumn(r.df, "Value"))
       THEN [exc |-> Exc("ValueError",
                         "Environment details CSV must have 'Property' and 'Value' columns",
                         <<>>),
             details |-> <<>>]
       ELSE [exc |-> NoException,
             details |-> DictOfRows(Column(r.df, "Property"),
                                    Column(r.df, "Value"), <<>>)]

\* load_environment_details without its except Exception clause
load_environment_details_absent_only(file) ==
    LET r == read_environment(file)
    IN IF IsInstance(r.exc.type, "FileNotFoundError")
       THEN [exc |-> NoException, details |-> <<>>]
       ELSE r

\* the function with its two except clauses: FileNotFoundError, then Exception
load_environment_details(file) ==
    LET r == read_environment(file)
    IN IF IsInstance(r.exc.type, "FileNotFoundError")
       THEN [exc |-> NoException, details |-> <<>>]
       ELSE IF IsInstance(r.exc.type, "Exception")
       THEN [exc |-> NoException, details |-> <<>>]
       ELSE r

-----------------------------------------------------------------------------
(* illustrate.py: extract_benchmark_times *)

\* matching_rows without the filter on the label: every row matches
matching_rows_unfiltered(d, op) ==
    LET ts == Column(d, "Time (us/op)")
    IN [r \in 1..Len(ts) |-> <<r, ts[r]>>]

\* df.loc[df["Operation"] == op, "Time (µs/op)"]
matching_rows(d, op) ==
    LET ops == Column(d, "Operation")
        ts == Column(d, "Time (us/op)")
        hit == {r \in 1..Len(ops) : ops[r] = Str(op)}
    IN SelectSeq2([r \in 1..Len(ts) |-> <<r, ts[r]>>],
                  {<<r, ts[r]>> : r \in hit})

RECURSIVE get_times_for_curve(_, _, _)
\* the loop over ops: [exc, times]
get_times_for_curve(d, ops, times) ==
    IF Len(ops) = 0 THEN [exc |-> NoException, times |-> times]
    ELSE LET m == matching_rows(d, ops[1])
         IN IF Len(m) = 0
            THEN [exc |-> Exc("ValueError", "No data found for operation", <<ops[1]>>),
                  times |-> <<>>]
            ELSE IF ~IsNumeric(m[1][2])
            THEN [exc |-> Exc("ValueError", "could not convert string to float",
                              <<ops[1]>>),
                  times |-> <<>>]
            ELSE get_times_for_curve(d, Tail(ops), Append(times, FloatOf(m[1][2])))

extract_benchmark_times(d) ==
    LET e == get_times_for_curve(d, operations.ed25519, <<>>)
        s == get_times_for_curve(d, operations.secp256k1, <<>>)
    IN IF e.exc # NoException THEN [exc |-> e.exc, ed |-> <<>>, secp |-> <<>>]
       ELSE IF s.exc # NoException THEN [exc |-> s.exc, ed |-> <<>>, secp |-> <<>>]
       ELSE [exc |-> NoException, ed |-> e.times, secp |-> s.times]

-----------------------------------------------------------------------------
(* illustrate.py: create_benchmark_chart *)

NoFault == [stage |-> "none", type |-> "None"]

\* the text block below the plot: one "k: v" line per entry, none for {}
details_text(env) == [k \in 1..Len(env) |-> env[k][1] \o <<": ">> \o env[k][2]]

\* bars, labels and annotation, then savefig, then show; f is the failure
\* the plotting library meets, if any
create_benchmark_chart(ed, secp, env, f) ==
    LET image == [saved |-> TRUE, ed |-> ed, secp |-> secp,
                  annotation |-> IF env # <<>> THEN details_text(env) ELSE <<>>]
    IN IF f.stage = "render" \/ f.stage = "savefig"
       THEN [exc |-> Exc(f.type, "library failure", <<>>), chart |-> NoChart]
       ELSE IF f.stage = "show"
       THEN [exc |-> Exc(f.type, "library failure", <<>>), chart |-> image]
       ELSE [exc |-> NoException, chart |-> image]

-----------------------------------------------------------------------------
(* The files illustrate.py may find on disk *)

File(lines) == [exists |-> TRUE, readable |-> TRUE, lines |-> lines]

AbsentFile == [exists |-> FALSE, readable |-> FALSE, lines |-> <<>>]

UnreadableFile == [exists |-> TRUE, readable |-> FALSE, lines |-> <<>>]

ZeroByteFile == File(<<>>)

\* the timings of the spec's example scenario, in tenths of a microsecond
SampleTime ==
    [l \in Labels |->
        CASE l = "Ed25519 KeyGen" -> 123
          [] l = "Ed25519 Signing" -> 81
          [] l = "Ed25519 Verification" -> 154
          [] l = "secp256k1 KeyGen" -> 1102
          [] l = "secp256k1 Signing" -> 957
          [] l = "secp256k1 Verification" -> 1409]

ResultsHeaders ==
    {<<"Operation", "Time (us/op)">>, <<"Time (us/op)", "Operation">>,
     <<"Operation">>, <<"Time (us/op)">>, <<"Name", "Value">>,
     <<"Operation", "Time (us/op)", "Notes">>}

\* the text of the cell of label l under column col; in the variant "text"
\* one time is not a number
Cell(col, l, variant) ==
    IF col = "Operation" \/ col = "Name" THEN Str(l)
    ELSE IF col = "Notes" THEN Str("n/a")
    ELSE IF variant = "text" /\ l = "secp256k1 Signing" THEN Str("n/a")
    ELSE StrFloat(SampleTime[l])

TableLines(header, labelSeq, variant) ==
    <<JoinFields([c \in 1..Len(header) |-> Str(header[c])])>>
    \o [r \in 1..Len(labelSeq) |->
           JoinFields([c \in 1..Len(header) |-> Cell(header[c], labelSeq[r], variant)])]

\* the label sets a results file may hold: all but at most MaxMissing, or none
PresentSets ==
    {P \in SUBSET Labels : Cardinality(Labels \ P) <= MaxMissing} \cup {{}}

ResultsFiles ==
    {AbsentFile, UnreadableFile, ZeroByteFile}
    \cup {File(TableLines(h, SelectSeq2(o, P), "float")) :
            h \in ResultsHeaders, P \in PresentSets,
            o \in {required_operations, Reverse(required_operations)}}
    \cup {File(TableLines(h, required_operations, "text")) : h \in ResultsHeaders}

EnvRows == <<<<"Python_version", <<"3", ".", "1", "1">>>>, <<"CPU_count", <<"8">>>>>>

EnvLines(header, n) ==
    <<JoinFields([c \in 1..Len(header) |-> Str(header[c])])>>
    \o [r \in 1..n |->
           JoinFields([c \in 1..Len(header) |->
                          IF header[c] = "Property" THEN Str(EnvRows[r][1])
                          ELSE EnvRows[r][2]])]

EnvFiles ==
    {AbsentFile, UnreadableFile, ZeroByteFile}
    \cup {File(EnvLines(h, n)) :
            h \in {<<"Property", "Value">>, <<"Property">>, <<"Value">>},
            n \in {0, Len(EnvRows)}}

Faults ==
    {NoFault,
     [stage |-> "render", type |-> "ValueError"],
     [stage |-> "render", type |-> "RuntimeError"],
     [stage |-> "savefig", type |-> "PermissionError"],
     [stage |-> "show", type |-> "RuntimeError"]}

-----------------------------------------------------------------------------
(* illustrate.py: main, one action per statement of its try block *)

\* df = load_and_validate_data(csv_file)
MainLoad ==
    /\ pc = "main_load"
    /\ LET r == load_and_validate_data(resultsFile)
       IN /\ df' = r.df
          /\ raised' = r.exc
          /\ pc' = IF r.exc = NoException THEN "main_env" ELSE "main_except"
    /\ trace' = Append(trace, "load")
    /\ UNCHANGED <<resultsFile, envFile, fault, env_details, ed_times, secp_times,
                   chart, handler, ret, exitStatus, benchVars>>

\* env_details = load_environment_details(env_file)
MainEnv ==
    /\ pc = "main_env"
    /\ LET r == load_environment_details(envFile)
       IN /\ env_details' = r.details
          /\ raised' = r.exc
          /\ pc' = IF r.exc = NoException THEN "main_extract" ELSE "main_except"
    /\ trace' = Append(trace, "env")
    /\ UNCHANGED <<resultsFile, envFile, fault, df, ed_times, secp_times,
                   chart, handler, ret, exitStatus, benchVars>>

\* ed_times, secp_times = extract_benchmark_times(df)
MainExtract ==
    /\ pc = "main_extract"
    /\ LET r == extract_benchmark_times(df)
       IN /\ ed_times' = r.ed
          /\ secp_times' = r.secp
          /\ raised' = r.exc
          /\ pc' = IF r.exc = NoException THEN "main_chart" ELSE "main_except"
    /\ trace' = Append(trace, "extract")
    /\ UNCHANGED <<resultsFile, envFile, fault, df, env_details,
                   chart, handler, ret, exitStatus, benchVars>>

\* create_benchmark_chart(ed_times, secp_times, env_details, output_file)
MainChart ==
    /\ pc = "main_chart"
    /\ LET r == create_benchmark_chart(ed_times, secp_times, env_details, fault)
       IN /\ chart' = r.chart
          /\ raised' = r.exc
          /\ pc' = IF r.exc = NoException THEN "main_return" ELSE "main_except"
    /\ trace' = Append(trace, "chart")
    /\ UNCHANGED <<resultsFile, envFile, fault, df, env_details, ed_times,
                   secp_times, handler, ret, exitStatus, benchVars>>

\* except_clause without the final except Exception
except_clause_known_only(type) ==
    IF \/ IsInstance(type, "FileNotFoundError")
       \/ IsInstance(type, "ValueError")
       \/ IsInstance(type, "EmptyDataError")
    THEN "known"
    ELSE "none"

\* which except clause of main takes an exception of class type
except_clause(type) ==
    IF \/ IsInstance(type, "FileNotFoundError")
       \/ IsInstance(type, "ValueError")
       \/ IsInstance(type, "EmptyDataError")
    THEN "known"
    ELSE IF IsInstance(type, "Exception") THEN "unexpected"
    ELSE "none"

\* the except clauses: log the error and return False, or let it propagate
MainExcept ==
    /\ pc = "main_except"
    /\ handler' = except_clause(raised.type)
    /\ IF handler' = "none"
       THEN pc' = "propagated" /\ ret' = ret
       ELSE pc' = "returned" /\ ret' = "False"
    /\ UNCHANGED <<resultsFile, envFile, fault, df, env_details, ed_times,
                   secp_times, raised, chart, exitStatus, trace, benchVars>>

\* return True
MainReturn ==
    /\ pc = "main_return"
    /\ ret' = "True"
    /\ pc' = "returned"
    /\ UNCHANGED <<resultsFile, envFile, fault, df, env_details, ed_times,
                   secp_times, raised, chart, handler, exitStatus, trace, benchVars>>

\* the status of `if not main(): exit(1)`
exit_status(r) == IF r = "True" THEN 0 ELSE 1

\* if not main(): exit(1)
Exit ==
    /\ pc = "returned"
    /\ exitStatus' = exit_status(ret)
    /\ pc' = "exited"
    /\ UNCHANGED <<resultsFile, envFile, fault, df, env_details, ed_times,
                   secp_times, raised, chart, handler, ret, trace, benchVars>>

-----------------------------------------------------------------------------
(* benchmark.py *)

ITERATIONS == 1000

\* the six measurements in the order main runs them
Phases ==
    <<[scheme |-> "Ed25519", kind |-> "KeyGen", label |-> "Ed25519 KeyGen"],
      [scheme |-> "Ed25519", kind |-> "Signing", label |-> "Ed25519 Signing"],
      [scheme |-> "Ed25519", kind |-> "Verification", label |-> "Ed25519 Verification"],
      [scheme |-> "secp256k1", kind |-> "KeyGen", label |-> "secp256k1 KeyGen"],
      [scheme |-> "secp256k1", kind |-> "Signing", label |-> "secp256k1 Signing"],
      [scheme |-> "secp256k1", kind |-> "Verification",
       label |-> "secp256k1 Verification"]>>

Kinds == {"KeyGen", "Signing", "Verification"}

NoCalls == [k \in Kinds |-> 0]

\* the library calls a measurement makes before its start timestamp
setup_calls(kind) ==
    IF kind = "KeyGen" THEN <<>>
    ELSE IF kind = "Signing" THEN <<"KeyGen">>
    ELSE <<"KeyGen", "Signing">>

RECURSIVE Ticks(_, _)
\* the time a sequence of library calls takes
Ticks(c, ks) == IF Len(ks) = 0 THEN 0 ELSE c[ks[1]] + Ticks(c, Tail(ks))

\* calls counted per kind, counted only between the two timestamps
Count(cs, label, ks, inside) ==
    IF ~inside THEN cs
    ELSE [cs EXCEPT ![label] =
             [k \in Kinds |-> @[k] + Cardinality({n \in 1..Len(ks) : ks[n] = k})]]

\* (end - start) / ITERATIONS * 1e6, in tenths of a microsecond, for
\* timestamps in ticks of 1e-4 s
per_op(t0, t1) == ((t1 - t0) * 1000) \div ITERATIONS

\* results[k] = v
SetItem(d, k, v) ==
    LET at == {n \in 1..Len(d) : d[n][1] = k}
    IN IF at = {} THEN Append(d, <<k, v>>)
       ELSE [n \in 1..Len(d) |-> IF n \in at THEN <<k, v>> ELSE d[n]]

GetItem(d, k) == LET n == CHOOSE m \in 1..Len(d) : d[m][1] = k IN d[n][2]

\* the statements of a measurement before start = time.time(): none for key
\* generation, a key pair for signing, a key pair and a signature for
\* verification
BenchSetup ==
    /\ bpc = "setup"
    /\ LET ph == Phases[phase]
           ks == setup_calls(ph.kind)
       IN /\ keys' = keys + Cardinality({n \in 1..Len(ks) : ks[n] = "KeyGen"})
          /\ private' = IF ph.kind = "KeyGen" THEN 0 ELSE keys'
          /\ sig' = IF ph.kind = "Verification" THEN keys' ELSE 0
          /\ clock' = clock + Ticks(cost, ks)
          /\ calls' = Count(calls, ph.label, ks, timed)
    /\ bpc' = "start"
    /\ UNCHANGED <<reportVars, phase, results, start, i, cost, timed, usedKey,
                   console>>

\* start = time.time()
BenchStart ==
    /\ bpc = "start"
    /\ start' = clock
    /\ timed' = TRUE
    /\ i' = 0
    /\ bpc' = "loop"
    /\ UNCHANGED <<reportVars, phase, results, clock, cost, keys, private, sig,
                   calls, usedKey, console>>

\* one pass of the for loop: one call of the measured operation
BenchCall ==
    /\ bpc = "loop"
    /\ i < ITERATIONS
    /\ LET ph == Phases[phase]
       IN /\ keys' = IF ph.kind = "KeyGen" THEN keys + 1 ELSE keys
          /\ usedKey' = [usedKey EXCEPT ![ph.label] =
                            IF ph.kind = "KeyGen" THEN 0
                            ELSE private]
          /\ clock' = clock + cost[ph.kind]
          /\ calls' = Count(calls, ph.label, <<ph.kind>>, timed)
    /\ i' = i + 1
    /\ UNCHANGED <<reportVars, bpc, phase, results, start, cost, private, sig,
                   timed, console>>

\* end = time.time(); results[label] = (end - start) / ITERATIONS * 1e6
BenchStop ==
    /\ bpc = "loop"
    /\ i = ITERATIONS
    /\ timed' = FALSE
    /\ results' = SetItem(results, Phases[phase].label, per_op(start, clock))
    /\ IF phase < Len(Phases)
       THEN phase' = phase + 1 /\ bpc' = "setup"
       ELSE phase' = phase /\ bpc' = "print"
    /\ UNCHANGED <<reportVars, clock, start, i, cost, keys, private, sig, calls,
                   usedKey, console>>

\* secp_val / ed_val, printed with one decimal
ratio(secp_val, ed_val) == (2 * 10 * secp_val + ed_val) \div (2 * ed_val)

\* print_benchmark_results: one line per operation; raises ZeroDivisionError
\* on an Ed25519 time of zero
print_benchmark_results ==
    /\ bpc = "print"
    /\ IF \E n \in 1..3 : GetItem(results, operations.ed25519[n]) = 0
       THEN bpc' = "crashed" /\ console' = console
       ELSE /\ bpc' = "save"
            /\ console' = console \o
                 [n \in 1..3 |->
                     LET e == GetItem(results, operations.ed25519[n])
                         c == GetItem(results, operations.secp256k1[n])
                     IN <<n, e, c, ratio(c, e)>>]
    /\ UNCHANGED <<reportVars, phase, results, clock, start, i, cost, keys,
                   private, sig, timed, calls, usedKey>>

\* the lines save_csv_benchmark_results writes for the mapping d
csv_lines(d) ==
    <<JoinFields(<<Str("Operation"), Str("Time (us/op)")>>)>>
    \o [n \in 1..Len(d) |-> JoinFields(<<Str(d[n][1]), StrFloat(d[n][2])>>)]

save_csv_benchmark_results ==
    /\ bpc = "save"
    /\ resultsFile' = File(csv_lines(results))
    /\ bpc' = "env"
    /\ UNCHANGED <<envFile, fault, pc, df, env_details, ed_times, secp_times,
                   raised, chart, handler, ret, exitStatus, trace, phase, results,
                   clock, start, i, cost, keys, private, sig, timed, calls,
                   usedKey, console>>

\* collect_env_info: the five properties of the host
env_info ==
    <<<<"Python_version", <<"3", ".", "1", "1">>>>, <<"Platform", <<"Linux">>>>,
      <<"Processor", <<"x86_64">>>>, <<"Architecture", <<"64bit", " ", "ELF">>>>,
      <<"CPU_count", <<"8">>>>>>

capture_environment ==
    /\ bpc = "env"
    /\ envFile' = File(<<JoinFields(<<Str("Property"), Str("Value")>>)>>
                       \o [n \in 1..Len(env_info) |->
                              JoinFields(<<Str(env_info[n][1]), env_info[n][2]>>)])
    /\ bpc' = "done"
    /\ UNCHANGED <<resultsFile, fault, pc, df, env_details, ed_times, secp_times,
                   raised, chart, handler, ret, exitStatus, trace, phase, results,
                   clock, start, i, cost, keys, private, sig, timed, calls,
                   usedKey, console>>

-----------------------------------------------------------------------------
(* Specifications *)

\* illustrate.py before main runs
ReportStart ==
    /\ pc = "main_load"
    /\ df = NoDf
    /\ env_details = <<>>
    /\ ed_times = <<>>
    /\ secp_times = <<>>
    /\ raised = NoException
    /\ chart = NoChart
    /\ handler = "none"
    /\ ret = "None"
    /\ exitStatus = -1
    /\ trace = <<>>

\* benchmark.py at position at, holding the mapping d
BenchAt(at, d) ==
    /\ bpc = at
    /\ phase = 1
    /\ results = d
    /\ clock = 0
    /\ start = 0
    /\ i = 0
    /\ keys = 0
    /\ private = 0
    /\ sig = 0
    /\ timed = FALSE
    /\ calls = [l \in Labels |-> NoCalls]
    /\ usedKey = [l \in Labels |-> 0]
    /\ console = <<>>

\* the report generator run on the files it may find
Init ==
    /\ resultsFile \in ResultsFiles
    /\ envFile \in EnvFiles
    /\ fault \in Faults
    /\ ReportStart
    /\ BenchAt("idle", <<>>)
    /\ cost = [k \in Kinds |-> 1]

Next ==
    \/ MainLoad
    \/ MainEnv
    \/ MainExtract
    \/ MainChart
    \/ MainExcept
    \/ MainReturn
    \/ Exit

Spec == Init /\ [][Next]_vars

\* the benchmark runner, from the start of its main
InitBench ==
    /\ resultsFile = AbsentFile
    /\ envFile = AbsentFile
    /\ fault = NoFault
    /\ ReportStart
    /\ BenchAt("setup", <<>>)
    /\ cost \in [Kinds -> 1..MaxCost]

NextBench ==
    \/ BenchSetup
    \/ BenchStart
    \/ BenchCall
    \/ BenchStop
    \/ print_benchmark_results
    \/ save_csv_benchmark_results
    \/ capture_environment

SpecBench == InitBench /\ [][NextBench]_vars

\* the times a results mapping may hold, in tenths of a microsecond
TimeValues == {t * 487 : t \in 0..MaxTime}

\* the results mappings of the six labels, in either insertion order
Mappings ==
    {[n \in 1..Len(o) |-> <<o[n], f[o[n]]>>] :
        o \in {required_operations, Reverse(required_operations)},
        f \in [Labels -> TimeValues]}

\* the hand-off between the two scripts: the runner about to write its
\* results, the report generator about to read them
InitRoundTrip ==
    /\ resultsFile = AbsentFile
    /\ envFile = AbsentFile
    /\ fault = NoFault
    /\ ReportStart
    /\ \E d \in Mappings : BenchAt("save", d)
    /\ cost = [k \in Kinds |-> 1]

\* load_and_validate_data run on the file the runner wrote
ReadBack == bpc = "env" /\ MainLoad

NextRoundTrip ==
    \/ save_csv_benchmark_results
    \/ ReadBack

SpecRoundTrip == InitRoundTrip /\ [][NextRoundTrip]_vars

-----------------------------------------------------------------------------
(* The results file as it lies on disk, read independently of illustrate.py *)

InReadable == resultsFile.exists /\ resultsFile.readable /\ Len(resultsFile.lines) > 0

InHeader == SplitFields(resultsFile.lines[1])

InRows == [r \in 1..(Len(resultsFile.lines) - 1) |-> SplitFields(resultsFile.lines[r + 1])]

InHas(col) == \E k \in 1..Len(InHeader) : InHeader[k] = <<col>>

InCell(r, col) == InRows[r][CHOOSE k \in 1..Len(InHeader) : InHeader[k] = <<col>>]

InLabels == {l \in Labels : \E r \in 1..Len(InRows) : InCell(r, "Operation") = <<l>>}

InMissing == Labels \ InLabels

BothColumns == InReadable /\ InHas("Operation") /\ InHas("Time (us/op)")

\* the six labels, one row each, every time a positive number
SixLabelTable ==
    /\ BothColumns
    /\ Len(InRows) = 6
    /\ InLabels = Labels
    /\ \A r \in 1..Len(InRows) :
          /\ IsNumeric(InCell(r, "Time (us/op)"))
          /\ FloatOf(InCell(r, "Time (us/op)")) > 0

InTime(l) ==
    LET r == CHOOSE n \in 1..Len(InRows) : InCell(n, "Operation") = <<l>>
    IN FloatOf(InCell(r, "Time (us/op)"))

Ran(stage) == \E k \in 1..Len(trace) : trace[k] = stage

AllStages == <<"load", "env", "extract", "chart">>

EnvAbsentOrMalformed ==
    \/ ~envFile.exists
    \/ /\ envFile.exists
       /\ envFile.readable
       /\ \/ Len(envFile.lines) = 0
          \/ LET h == SplitFields(envFile.lines[1])
             IN ~(<<"Property">> \in Range(h) /\ <<"Value">> \in Range(h))

-----------------------------------------------------------------------------
(* Claims *)

\* C1: for a results table holding exactly the six labels, each with a
\* positive number, loading and extraction succeed, extract_benchmark_times
\* returns the Ed25519 triple and the secp256k1 triple in KeyGen, Signing,
\* Verification order whatever the order of the rows, and when the plotting
\* library does not fail the chart is saved and the process exits with 0.
C1_ExtractsOrderedTriples ==
    SixLabelTable =>
        /\ pc \in {"returned", "exited"} => Ran("extract")
        /\ Ran("extract") =>
              /\ ed_times = <<InTime("Ed25519 KeyGen"), InTime("Ed25519 Signing"),
                              InTime("Ed25519 Verification")>>
              /\ secp_times = <<InTime("secp256k1 KeyGen"), InTime("secp256k1 Signing"),
                                InTime("secp256k1 Verification")>>
        /\ (pc = "exited" /\ fault = NoFault) =>
              /\ exitStatus = 0
              /\ chart.saved
              /\ chart.ed = ed_times
              /\ chart.secp = secp_times

\* C1 witness: the example table with its rows in reverse order was
\* extracted to [12.3, 8.1, 15.4] and [110.2, 95.7, 140.9] and the run ended
\* with status 0.
C1_Witness ==
    /\ SixLabelTable
    /\ InCell(1, "Operation") = <<"secp256k1 Verification">>
    /\ pc = "exited"
    /\ exitStatus = 0
    /\ ed_times = <<123, 81, 154>>
    /\ secp_times = <<1102, 957, 1409>>

\* C2: a results file with both columns that lacks some of the six labels
\* makes load_and_validate_data raise ValueError "Missing required
\* operations" naming every missing label once and no label that is present;
\* a file missing only "secp256k1 Verification" names exactly that label.
C2_MissingLabelsNamed ==
    (BothColumns /\ InMissing # {} /\ pc # "main_load") =>
        /\ raised.type = "ValueError"
        /\ raised.msg = "Missing required operations"
        /\ Range(raised.names) = InMissing
        /\ Len(raised.names) = Cardinality(InMissing)
        /\ InMissing = {"secp256k1 Verification"} =>
              raised.names = <<"secp256k1 Verification">>

\* C2 witness: a file missing only "secp256k1 Verification" was rejected.
C2_Witness ==
    /\ BothColumns
    /\ InMissing = {"secp256k1 Verification"}
    /\ pc = "main_except"
    /\ raised.names = <<"secp256k1 Verification">>

\* C3: when the results file does not exist, load_and_validate_data raises
\* FileNotFoundError (not ValueError), main's first except clause reports it
\* and returns False, and the process exits with status 1.
C3_MissingFileExitsOne ==
    ~resultsFile.exists =>
        /\ pc # "propagated"
        /\ pc # "main_load" =>
              /\ trace = <<"load">>
              /\ raised.type = "FileNotFoundError"
              /\ ~IsInstance(raised.type, "ValueError")
        /\ pc \in {"returned", "exited"} => (handler = "known" /\ ret = "False")
        /\ pc = "exited" => exitStatus = 1

\* C3 witness: a run without results file has exited with status 1.
C3_Witness ==
    /\ ~resultsFile.exists
    /\ pc = "exited"
    /\ raised.type = "FileNotFoundError"
    /\ exitStatus = 1

\* C4: an empty results file, of zero bytes or of a header line alone, makes
\* load_and_validate_data raise ValueError; the run stops at loading, main's
\* first except clause (never the generic one) reports it, and the process
\* exits with status 1.
C4_EmptyFileIsMalformed ==
    (resultsFile.exists /\ resultsFile.readable /\ Len(resultsFile.lines) <= 1) =>
        /\ pc # "propagated"
        /\ pc # "main_load" =>
              /\ trace = <<"load">>
              /\ raised.type = "ValueError"
              /\ Len(resultsFile.lines) = 0 => raised.msg = "CSV file is empty"
        /\ pc \in {"returned", "exited"} => (handler = "known" /\ ret = "False")
        /\ pc = "exited" => exitStatus = 1

\* C4 witness: a zero-byte results file was reported as malformed input.
C4_Witness ==
    /\ resultsFile.exists
    /\ resultsFile.readable
    /\ Len(resultsFile.lines) = 0
    /\ pc = "exited"
    /\ handler = "known"
    /\ raised.type = "ValueError"

\* C4, second shape: a results file of the header line alone was reported as
\* malformed input.
C4_WitnessHeaderOnly ==
    /\ BothColumns
    /\ Len(resultsFile.lines) = 1
    /\ pc = "exited"
    /\ handler = "known"
    /\ raised.type = "ValueError"

\* C5: with a valid results file and an environment file that is absent,
\* empty or without the Property or the Value column,
\* load_environment_details returns the empty record without raising, and
\* when the plotting library does not fail the chart is saved without
\* annotation block, main returns True and the process exits with status 0.
C5_EnvironmentDegrades ==
    (SixLabelTable /\ EnvAbsentOrMalformed) =>
        /\ Ran("env") => env_details = <<>>
        /\ trace = <<"load", "env">> => (raised = NoException /\ pc = "main_extract")
        /\ (pc = "exited" /\ fault = NoFault) =>
              /\ chart.saved
              /\ chart.annotation = <<>>
              /\ ret = "True"
              /\ exitStatus = 0

\* C5 witness: a run with an environment file lacking the Value column saved
\* a chart without annotation and exited with status 0.
C5_Witness ==
    /\ SixLabelTable
    /\ envFile.exists
    /\ Len(envFile.lines) = 3
    /\ EnvAbsentOrMalformed
    /\ pc = "exited"
    /\ chart.saved
    /\ chart.annotation = <<>>
    /\ exitStatus = 0

\* C5, the other case: a run without environment file did the same.
C5_WitnessAbsent ==
    /\ SixLabelTable
    /\ ~envFile.exists
    /\ pc = "exited"
    /\ chart.saved
    /\ chart.annotation = <<>>
    /\ exitStatus = 0

\* C5, the contrast: a run with a well-formed environment file saved a chart
\* with an annotation block.
C5_WitnessAnnotated ==
    /\ pc = "exited"
    /\ chart.saved
    /\ Len(chart.annotation) = 2

C7_Original ==
    (pc # "main_load" /\ raised = NoException) =>
        (BothColumns /\ Len(InHeader) = 2)

\* C7 as amended: a table missing either column is rejected with ValueError
\* "Missing required columns" naming the missing ones; a table with both
\* columns and the six labels is accepted whatever other columns it carries.
C7_MissingColumnRejected ==
    (InReadable /\ pc # "main_load") =>
        /\ (~InHas("Operation") \/ ~InHas("Time (us/op)")) =>
              /\ trace = <<"load">>
              /\ raised.type = "ValueError"
              /\ raised.msg = "Missing required columns"
              /\ Range(raised.names) = {c \in Range(required_columns) : ~InHas(c)}
        /\ (BothColumns /\ InMissing = {}) =>
              /\ df.columns = InHeader
              /\ df.rows = InRows
              /\ trace = <<"load">> => raised = NoException

\* C7 witness: a table with a third column was accepted.
C7_Witness ==
    /\ InReadable
    /\ Len(InHeader) = 3
    /\ pc = "main_env"
    /\ raised = NoException
    /\ df.columns = InHeader

\* C8: no failure propagates out of main: FileNotFoundError and ValueError
\* (with its subclasses) raised by any stage go to the first except clause,
\* any other failure to the generic one, and both return False; the process
\* exits with 1 then, and with 0 exactly when the four stages completed and
\* the chart was saved.
C8_NoFailurePropagates ==
    /\ pc # "propagated"
    /\ (pc \in {"returned", "exited"} /\ raised # NoException) =>
          /\ ret = "False"
          /\ handler = IF raised.type \in {"FileNotFoundError", "ValueError",
                                           "EmptyDataError"}
                       THEN "known" ELSE "unexpected"
    /\ pc = "exited" =>
          /\ exitStatus \in {0, 1}
          /\ raised # NoException => exitStatus = 1
          /\ exitStatus = 0 <=>
                (raised = NoException /\ trace = AllStages /\ chart.saved)

\* C8 witness: a failure of the plotting library that is neither of the
\* known conditions was caught by the generic clause and the process exited
\* with status 1.
C8_Witness ==
    /\ pc = "exited"
    /\ trace = AllStages
    /\ raised.type = "RuntimeError"
    /\ handler = "unexpected"
    /\ exitStatus = 1

\* C8, the loading stage: a results file that cannot be read was caught by
\* the generic clause.
C8_WitnessLoading ==
    /\ pc = "exited"
    /\ trace = <<"load">>
    /\ raised.type = "PermissionError"
    /\ handler = "unexpected"
    /\ exitStatus = 1

\* C9: the chart is saved only if the six labels were all in the results
\* table; when a label is missing the run stops at the validation of the
\* results: the environment file is not read, nothing is extracted and no
\* chart is written.
C9_ChartNeedsSixLabels ==
    /\ chart.saved => (BothColumns /\ InMissing = {})
    /\ (InReadable /\ InHas("Operation") /\ InMissing # {}) =>
          /\ trace \in {<<>>, <<"load">>}
          /\ pc # "main_load" => raised.type = "ValueError"
          /\ env_details = <<>>
          /\ ed_times = <<>>
          /\ secp_times = <<>>
          /\ ~chart.saved

\* C9 witness: a run on a table missing a label ended after the loading
\* stage alone, with a well-formed environment file left unread.
C9_Witness ==
    /\ BothColumns
    /\ InMissing # {}
    /\ envFile.exists
    /\ Len(envFile.lines) = 3
    /\ ~EnvAbsentOrMalformed
    /\ pc = "exited"
    /\ trace = <<"load">>
    /\ exitStatus = 1
    /\ ~chart.saved

\* the timed intervals of the signing and verification measurements hold
\* ITERATIONS calls of the measured operation and no key generation
TimedIntervalsExact ==
    \A n \in 1..Len(Phases) :
        (Phases[n].kind # "KeyGen" /\ (n < phase \/ bpc \in {"print", "save", "env", "done"})) =>
            /\ calls[Phases[n].label][Phases[n].kind] = ITERATIONS
            /\ calls[Phases[n].label]["KeyGen"] = 0
            /\ \A k \in Kinds \ {Phases[n].kind} : calls[Phases[n].label][k] = 0

\* C10: for each scheme the signing and the verification measurement use one
\* and the same generated key pair, generated outside the timed intervals,
\* which hold ITERATIONS calls of the measured operation and no key
\* generation.
C10_OneKeyPairOutsideTimer ==
    bpc = "done" =>
        /\ TimedIntervalsExact
        /\ usedKey["Ed25519 Signing"] = usedKey["Ed25519 Verification"]
        /\ usedKey["secp256k1 Signing"] = usedKey["secp256k1 Verification"]

\* C10, what the runner does: each measurement has a key pair of its own
\* (the 1001st and the 1002nd of the scheme's run), generated before its
\* start timestamp.
C10_OwnKeyPairEach ==
    bpc = "done" =>
        /\ TimedIntervalsExact
        /\ usedKey["Ed25519 Signing"] = ITERATIONS + 1
        /\ usedKey["Ed25519 Verification"] = ITERATIONS + 2
        /\ usedKey["secp256k1 Signing"] = 2 * ITERATIONS + 3
        /\ usedKey["secp256k1 Verification"] = 2 * ITERATIONS + 4

====
